---- MODULE Spec2Model ----
(***************************************************************************)
(* art-of-bookmarks: the bookmarks view (src/app/bookmarks/page.tsx), its  *)
(* add form (src/components/BookmarkForm.tsx) and its list                 *)
(* (src/components/BookmarkList.tsx), together with the backing table and  *)
(* the change feed they talk to.                                           *)
(*                                                                         *)
(* Strings are sequences of characters, so that trim() and new URL() are   *)
(* computed, not assumed.  null is the one-element sequence NULL.          *)
(***************************************************************************)
EXTENDS Integers, Sequences, FiniteSets, TLC

\* ---------------------------------------------------------------- bounds
MaxIds == 2          \* rows ever inserted into the table
MaxFeed == 2         \* events the change feed carries in one run
MaxRedeliver == 1    \* duplicate deliveries (at-least-once feed)
MaxWrites == 3       \* writes the table accepts in one run (its clock stops there)

\* ------------------------------------------------------------- vocabulary
Me == "me"
Other == "other"
Users == {Me, Other}
NoSession == "none"
Undefined == "undefined"
NULL == <<"null">>

Space == " "
S0 == << >>
SBlank == <<" ">>
SA == <<"a">>
SUrl == <<"a", ":">>
SUrlPad == <<" ", "a", ":">>
SNotUrl == <<"a", " ", ":">>

\* what the user can type into the add form
UrlInputs == {S0, SBlank, SNotUrl, SUrl, SUrlPad}
TitleInputs == {S0, SBlank, SA}
DescInputs == {S0, SA}
\* what the user can type into the edit fields of a bookmark
EditTitleInputs == {SBlank, <<"A">>, <<" ", "A", " ">>}
EditUrlInputs == {SNotUrl, SUrl, SUrlPad}
EditDescInputs == {S0, SBlank, <<"a", " ">>}
\* what the user can type into the search box
SearchInputs == {S0, <<"A">>}
\* searches that tell the rows apart: by URL, by description, by nothing
FilterInputs == {S0, <<"A">>, <<"A", "A">>, <<" ">>, <<":", ":">>}

ErrUrlRequired == "URL is required"
ErrUrlInvalid == "Please enter a valid URL (e.g., https://example.com)"
ErrTitleRequired == "Title is required"
SuccessAdded == "Bookmark added successfully!"
NoMessage == ""

ErrLoad == "Failed to load bookmarks"
ErrAdd == "Failed to add bookmark"
ErrDelete == "Failed to delete bookmark"
ErrUpdate == "Failed to update bookmark"
ErrFavorite == "Failed to update favorite. Make sure your bookmarks table has an is_favorite column."
NoError == "null"

VARIABLES
    \* environment
    session,          \* what supabase.auth.getSession() answers: NoSession or a user id
    db,               \* the bookmarks table: a set of rows
    nextId,           \* next identifier the table assigns
    now,              \* the table's clock
    replicaFull,      \* REPLICA IDENTITY FULL: a delete event's old row carries every column
    channel,          \* the realtime channel: "none", "joining", "joined", "closed"
    feed,             \* events emitted on the channel, in emission order
    delivered,        \* how many events of feed the handler has been given
    redelivered,      \* duplicate deliveries so far
    unsubscribed,     \* observation: unsubscribe() has been called on the channel
    \* BookmarksPage
    mounted, pc, user, bookmarks, filteredBookmarks, isLoading, error,
    redirected, subscriptionRef, searchQuery, showFavoritesOnly,
    \* BookmarkForm
    form, formLoading, urlError, successMessage, addReq, addPc,
    \* BookmarkList
    deleting, faded, delReqs,
    updating,         \* the id whose save or favourite request is awaited, or NoId
    editingId,        \* the id of the bookmark in edit mode, or NoId
    edit,             \* editTitle, editUrl, editDescription
    updReqs,          \* update requests sent and not yet answered
    \* the browser
    route,            \* the page it is on, or the redirect the callback answered
    request,          \* the query parameters of the request to the auth callback
    exchange,         \* how exchangeCodeForSession ended: "none" while not called
    \* observation
    fetches,          \* bookmark selects issued by loadBookmarks
    favLog,           \* the favourite requests of this view: sent, accepted, failed
    last              \* the last step taken

envVars == <<session, db, nextId, now, replicaFull, unsubscribed, channel, feed, delivered, redelivered>>
pageVars == <<mounted, pc, user, bookmarks, filteredBookmarks, isLoading, error,
              redirected, subscriptionRef, searchQuery, showFavoritesOnly>>
formVars == <<form, formLoading, urlError, successMessage, addReq, addPc>>
listVars == <<deleting, faded, delReqs>>
editVars == <<updating, editingId, edit, updReqs>>
browserVars == <<route, request, exchange>>
obsVars == <<fetches, favLog>>
vars == <<envVars, pageVars, formVars, listVars, editVars, browserVars, obsVars, last>>

NoRow == [id |-> 0, user_id |-> Undefined, url |-> S0, title |-> S0,
          description |-> NULL, is_favorite |-> FALSE, created_at |-> 0, updated_at |-> 0]
EmptyForm == [url |-> S0, title |-> S0, description |-> S0]
NoRequest == [code |-> NULL, next |-> "null"]
EmptyEdit == [title |-> S0, url |-> S0, description |-> S0]
NoId == 0

\* ------------------------------------------------------------ pure helpers
RECURSIVE TrimStart(_)
TrimStart(s) == IF s # << >> /\ Head(s) = Space THEN TrimStart(Tail(s)) ELSE s

RECURSIVE TrimEnd(_)
TrimEnd(s) ==
    IF s # << >> /\ s[Len(s)] = Space THEN TrimEnd(SubSeq(s, 1, Len(s) - 1)) ELSE s

\* String.prototype.trim
Trim(s) == TrimEnd(TrimStart(s))

IsAlpha(c) == c \in {"a", "A"}

\* String.prototype.toLowerCase
LowerChar(c) == IF c = "A" THEN "a" ELSE c
toLowerCase(s) == [i \in 1..Len(s) |-> LowerChar(s[i])]

\* String.prototype.includes
includes(s, q) ==
    \E k \in 0..(Len(s) - Len(q)) : SubSeq(s, k + 1, k + Len(q)) = q

\* new URL(urlString) with no base: leading and trailing spaces are stripped,
\* then a scheme (a letter, then letters) followed by ":" is required; a
\* space before the ":" is not part of a scheme.
ParsesAsUrl(s) ==
    LET t == Trim(s)
    IN  \E i \in 2..Len(t) :
            /\ t[i] = ":"
            /\ \A j \in 1..(i - 1) : IsAlpha(t[j])

validateUrl(urlString) == ParsesAsUrl(urlString)

\* a JavaScript string is falsy exactly when it is empty
Falsy(s) == s = << >>

Ids(list) == {list[i].id : i \in 1..Len(list)}

\* .order("created_at", { ascending: false }) over the rows of one user
RECURSIVE SortDesc(_)
SortDesc(rows) ==
    IF rows = {} THEN << >>
    ELSE LET top == CHOOSE r \in rows :
                        \A q \in rows : q.created_at < r.created_at
                                        \/ (q.created_at = r.created_at /\ q.id <= r.id)
         IN  <<top>> \o SortDesc(rows \ {top})

\* select("*").eq("user_id", uid).order("created_at", desc)
SelectOwnedAscending(rows, uid) ==
    LET sorted == SortDesc({r \in rows : r.user_id = uid})
    IN  [i \in 1..Len(sorted) |-> sorted[Len(sorted) + 1 - i]]
SelectOwned(rows, uid) == SortDesc({r \in rows : r.user_id = uid})

\* ----------------------------------------------------- Store operations
\* INSERT branch of the realtime handler
ApplyInsertNoGuard(prev, newRow, uid) == <<newRow>> \o prev
ApplyInsertAppend(prev, newRow, uid) ==
    IF newRow.user_id # uid THEN prev ELSE prev \o <<newRow>>
ApplyInsert(prev, newRow, uid) ==
    IF newRow.user_id # uid THEN prev ELSE <<newRow>> \o prev

\* DELETE branch
ApplyDeleteNoGuard(prev, oldRow, uid) ==
    SelectSeq(prev, LAMBDA b : b.id # oldRow.id)
ApplyDeleteSplice(prev, oldRow, uid) ==
    IF oldRow.user_id # uid \/ prev = << >> THEN prev
    ELSE IF oldRow.id \in Ids(prev)
         THEN SelectSeq(prev, LAMBDA b : b.id # oldRow.id)
         ELSE SubSeq(prev, 1, Len(prev) - 1)
ApplyDelete(prev, oldRow, uid) ==
    IF oldRow.user_id # uid THEN prev
    ELSE SelectSeq(prev, LAMBDA b : b.id # oldRow.id)

\* UPDATE branch
ApplyUpdateUpsert(prev, newRow, uid) ==
    IF newRow.user_id # uid THEN prev
    ELSE IF newRow.id \in Ids(prev)
         THEN [i \in 1..Len(prev) |-> IF prev[i].id = newRow.id THEN newRow ELSE prev[i]]
         ELSE <<newRow>> \o prev
ApplyUpdate(prev, newRow, uid) ==
    IF newRow.user_id # uid THEN prev
    ELSE [i \in 1..Len(prev) |-> IF prev[i].id = newRow.id THEN newRow ELSE prev[i]]

\* the handler passed to .on("postgres_changes", ...)
Handle(prev, payload, uid) ==
    IF payload.eventType = "INSERT" THEN ApplyInsert(prev, payload.row, uid)
    ELSE IF payload.eventType = "DELETE" THEN ApplyDelete(prev, payload.row, uid)
    ELSE IF payload.eventType = "UPDATE" THEN ApplyUpdate(prev, payload.row, uid)
    ELSE prev

\* the filter effect: filteredBookmarks from bookmarks, searchQuery, showFavoritesOnly
MatchesCaseSensitive(bookmark, query, favOnly) ==
    LET matchesFavorite == ~favOnly \/ bookmark.is_favorite
        matchesSearch ==
            \/ includes(toLowerCase(bookmark.title), query)
            \/ includes(toLowerCase(bookmark.url), query)
            \/ includes(IF bookmark.description = NULL THEN S0
                        ELSE toLowerCase(bookmark.description), query)
    IN  matchesFavorite /\ matchesSearch
Matches(bookmark, query, favOnly) ==
    LET matchesFavorite == ~favOnly \/ bookmark.is_favorite
        lowerSearch == toLowerCase(query)
        matchesSearch ==
            \/ includes(toLowerCase(bookmark.title), lowerSearch)
            \/ includes(toLowerCase(bookmark.url), lowerSearch)
            \/ includes(IF bookmark.description = NULL THEN S0
                        ELSE toLowerCase(bookmark.description), lowerSearch)
    IN  matchesFavorite /\ matchesSearch

Filter(list, query, favOnly) ==
    SelectSeq(list, LAMBDA b : Matches(b, query, favOnly))

\* ------------------------------------------------------------ environment
\* a delete event's old row: every column, or the primary key only
OldRow(row) == IF replicaFull THEN row ELSE [NoRow EXCEPT !.id = row.id]

\* the feed after the table emitted evs on a joined channel
Emit(evs) == IF channel = "joined" THEN feed \o evs ELSE feed
CanEmit == channel = "joined" => Len(feed) < MaxFeed

\* UNIQUE(user_id, url) of the documented table
UniqueOk(row) == ~\E r \in db : r.user_id = row.user_id /\ r.url = row.url

\* the URL a row written by another session carries: one per row
EnvUrl(id) == [i \in 1..(id + 1) |-> IF i = id + 1 THEN ":" ELSE "a"]

\* the description a row written by another session carries: none, or a blank
EnvDescription(id) == IF id % 2 = 0 THEN SBlank ELSE NULL

Step(op, row) == [op |-> op, row |-> row]

\* the list's DOM after a render: elements of rows no longer displayed are gone,
\* and a change of bookmarks.length re-runs the entrance animation on every item
\* (autoAlpha 1, clearProps)
Rendered(shown, fadedNow) ==
    IF Len(shown) # Len(filteredBookmarks) THEN {} ELSE fadedNow \cap Ids(shown)

\* BookmarkList is rendered only while filteredBookmarks is non-empty; its state
\* is lost when it unmounts
ListState(shown, value) == IF shown = << >> THEN NoId ELSE value

\* the edit state of BookmarkList after a render: lost with the component, and a
\* request awaited by a lost component resolves into nothing
ListUnmount(shown) ==
    /\ updating' = ListState(shown, updating)
    /\ editingId' = ListState(shown, editingId)
    /\ edit' = IF shown = << >> THEN EmptyEdit ELSE edit
    /\ updReqs' = IF shown = << >> THEN {[r EXCEPT !.live = FALSE] : r \in updReqs}
                  ELSE updReqs

\* every step that sets bookmarks also re-runs the filter effect and re-renders
SetStore(newStore) ==
    /\ bookmarks' = newStore
    /\ filteredBookmarks' = Filter(newStore, searchQuery, showFavoritesOnly)
    /\ faded' = Rendered(Filter(newStore, searchQuery, showFavoritesOnly), faded)
    /\ deleting' = ListState(Filter(newStore, searchQuery, showFavoritesOnly), deleting)
    /\ ListUnmount(Filter(newStore, searchQuery, showFavoritesOnly))

Init ==
    /\ session \in {NoSession, Me}
    /\ db = {}
    /\ nextId = 1
    /\ now = 1
    /\ replicaFull \in BOOLEAN
    /\ channel = "none"
    /\ feed = << >>
    /\ delivered = 0
    /\ redelivered = 0
    /\ unsubscribed = FALSE
    /\ mounted = TRUE
    /\ pc = "getSession"
    /\ user = NoSession
    /\ bookmarks = << >>
    /\ filteredBookmarks = << >>
    /\ isLoading = TRUE
    /\ error = NoError
    /\ redirected = FALSE
    /\ subscriptionRef = FALSE
    /\ searchQuery = S0
    /\ showFavoritesOnly = FALSE
    /\ form = EmptyForm
    /\ formLoading = FALSE
    /\ urlError = NoMessage
    /\ successMessage = NoMessage
    /\ addReq = EmptyForm
    /\ addPc = "idle"
    /\ deleting = NoId
    /\ faded = {}
    /\ delReqs = {}
    /\ updating = NoId
    /\ editingId = NoId
    /\ edit = EmptyEdit
    /\ updReqs = {}
    /\ route = "/bookmarks"
    /\ request = NoRequest
    /\ exchange = "none"
    /\ fetches = 0
    /\ favLog = << >>
    /\ last = Step("Init", NoRow)

\* another session (another tab of the user, or another user) inserts a row
EnvInsert(owner) ==
    /\ nextId <= MaxIds
    /\ now <= MaxWrites
    /\ CanEmit
    /\ LET row == [id |-> nextId, user_id |-> owner, url |-> EnvUrl(nextId), title |-> SA,
                   description |-> EnvDescription(nextId), is_favorite |-> FALSE,
                   created_at |-> now, updated_at |-> now]
       IN  /\ UniqueOk(row)
           /\ db' = db \cup {row}
           /\ feed' = Emit(<<[eventType |-> "INSERT", row |-> row]>>)
           /\ last' = Step("EnvInsert", row)
    /\ nextId' = nextId + 1
    /\ now' = now + 1
    /\ UNCHANGED <<session, replicaFull, unsubscribed, channel, delivered, redelivered>>
    /\ UNCHANGED <<pageVars, formVars, listVars>>
    /\ UNCHANGED <<editVars, browserVars, obsVars>>

\* another session of the row's owner stars or unstars it
EnvUpdate(id) ==
    /\ now <= MaxWrites
    /\ CanEmit
    /\ \E old \in db :
        /\ old.id = id
        /\ LET row == [old EXCEPT !.is_favorite = ~old.is_favorite, !.updated_at = now]
           IN  /\ db' = (db \ {old}) \cup {row}
               /\ feed' = Emit(<<[eventType |-> "UPDATE", row |-> row]>>)
               /\ last' = Step("EnvUpdate", row)
    /\ now' = now + 1
    /\ UNCHANGED <<session, nextId, replicaFull, unsubscribed, channel, delivered, redelivered>>
    /\ UNCHANGED <<pageVars, formVars, listVars>>
    /\ UNCHANGED <<editVars, browserVars, obsVars>>

\* another session of the row's owner deletes it
EnvDelete(id) ==
    /\ CanEmit
    /\ \E old \in db :
        /\ old.id = id
        /\ db' = db \ {old}
        /\ feed' = Emit(<<[eventType |-> "DELETE", row |-> OldRow(old)]>>)
        /\ last' = Step("EnvDelete", old)
    /\ UNCHANGED <<session, nextId, now, replicaFull, unsubscribed, channel, delivered, redelivered>>
    /\ UNCHANGED <<pageVars, formVars, listVars>>
    /\ UNCHANGED <<editVars, browserVars, obsVars>>

\* the session expires or is signed out elsewhere
SessionEnds ==
    /\ session # NoSession
    /\ session' = NoSession
    /\ last' = Step("SessionEnds", NoRow)
    /\ UNCHANGED <<db, nextId, now, replicaFull, unsubscribed, channel, feed, delivered, redelivered>>
    /\ UNCHANGED <<pageVars, formVars, listVars>>
    /\ UNCHANGED <<editVars, browserVars, obsVars>>

\* ------------------------------------------------- auth callback and home
\* the browser arrives at the auth callback with these query parameters
InitCallback ==
    /\ session = NoSession
    /\ db = {}
    /\ nextId = 1
    /\ now = 1
    /\ replicaFull \in BOOLEAN
    /\ channel = "none"
    /\ feed = << >>
    /\ delivered = 0
    /\ redelivered = 0
    /\ unsubscribed = FALSE
    /\ mounted = FALSE
    /\ pc = "unmounted"
    /\ user = NoSession
    /\ bookmarks = << >>
    /\ filteredBookmarks = << >>
    /\ isLoading = TRUE
    /\ error = NoError
    /\ redirected = FALSE
    /\ subscriptionRef = FALSE
    /\ searchQuery = S0
    /\ showFavoritesOnly = FALSE
    /\ form = EmptyForm
    /\ formLoading = FALSE
    /\ urlError = NoMessage
    /\ successMessage = NoMessage
    /\ addReq = EmptyForm
    /\ addPc = "idle"
    /\ deleting = NoId
    /\ faded = {}
    /\ delReqs = {}
    /\ updating = NoId
    /\ editingId = NoId
    /\ edit = EmptyEdit
    /\ updReqs = {}
    /\ route = "/auth/callback"
    /\ request \in [code : {NULL, S0, SA}, next : {"null", "/"}]
    /\ exchange = "none"
    /\ fetches = 0
    /\ favLog = << >>
    /\ last = Step("Init", NoRow)

\* the ways exchangeCodeForSession can end: a session, a returned { error }, an
\* exception
ExchangeOutcomes == {"session", "error", "throws"}

\* GET: the redirect it answers
GET(code, next, outcome) ==
    IF code # NULL /\ ~Falsy(code)
    THEN IF outcome = "throws"
         THEN "/auth?error=auth_failed"
         ELSE (IF next \in {"null", ""} THEN "/bookmarks" ELSE next)
    ELSE "/auth?error=no_code"

\* the browser follows a redirect; /bookmarks mounts the bookmarks view
Enter(to) ==
    /\ route' = to
    /\ mounted' = (to = "/bookmarks")
    /\ pc' = IF to = "/bookmarks" THEN "getSession" ELSE pc

\* the auth callback answers the request
AuthCallback(outcome) ==
    /\ route = "/auth/callback"
    /\ LET called == request.code # NULL /\ ~Falsy(request.code)
       IN  /\ exchange' = IF called THEN outcome ELSE "none"
           /\ session' = IF called /\ outcome = "session" THEN Me ELSE session
    /\ Enter(GET(request.code, request.next, outcome))
    /\ last' = Step("AuthCallback", NoRow)
    /\ UNCHANGED <<db, nextId, now, replicaFull, unsubscribed, channel, feed, delivered,
                   redelivered>>
    /\ UNCHANGED <<user, bookmarks, filteredBookmarks, isLoading, error, redirected,
                   subscriptionRef, searchQuery, showFavoritesOnly>>
    /\ UNCHANGED <<formVars, listVars, editVars, request, obsVars>>

\* Home.checkAuth: to the bookmarks view with a session, to sign-in without
HomeCheck ==
    /\ route = "/"
    /\ Enter(IF session # NoSession THEN "/bookmarks" ELSE "/auth")
    /\ last' = Step("HomeCheck", NoRow)
    /\ UNCHANGED <<user, bookmarks, filteredBookmarks, isLoading, error, redirected,
                   subscriptionRef, searchQuery, showFavoritesOnly>>
    /\ UNCHANGED <<envVars, formVars, listVars, editVars, request, exchange, obsVars>>

\* ---------------------------------------------------------- BookmarksPage
\* the controls are on screen once the spinner is gone
UI == mounted /\ ~isLoading

\* checkAuthAndLoadBookmarks: the first getSession() has answered
AuthCheck ==
    /\ pc = "getSession"
    /\ IF session = NoSession
       THEN /\ redirected' = TRUE
            /\ isLoading' = FALSE
            /\ pc' = "done"
            /\ user' = user
       ELSE /\ user' = session
            /\ pc' = "loadSession"
            /\ UNCHANGED <<redirected, isLoading>>
    /\ last' = Step("AuthCheck", NoRow)
    /\ UNCHANGED <<mounted, bookmarks, filteredBookmarks, error, subscriptionRef,
                   searchQuery, showFavoritesOnly>>
    /\ UNCHANGED <<envVars, formVars, listVars>>
    /\ UNCHANGED <<editVars, browserVars, obsVars>>

\* loadBookmarks: its getSession() has answered; without a session it returns,
\* setupRealtimeListener() is started and the finally block clears isLoading
AfterLoadSessionNoAwait(s) == "setupSession"
AfterLoadSession(s) == IF s = NoSession THEN "setupSession" ELSE "loadFetch"

LoadSession ==
    /\ pc = "loadSession"
    /\ pc' = AfterLoadSession(session)
    /\ isLoading' = IF session = NoSession THEN FALSE ELSE isLoading
    /\ last' = Step("LoadSession", NoRow)
    /\ UNCHANGED <<mounted, user, bookmarks, filteredBookmarks, error, redirected,
                   subscriptionRef, searchQuery, showFavoritesOnly>>
    /\ UNCHANGED <<envVars, formVars, listVars>>
    /\ UNCHANGED <<editVars, browserVars>>
    /\ fetches' = IF pc' = "loadFetch" THEN fetches + 1 ELSE fetches
    /\ UNCHANGED favLog

\* loadBookmarks: the select answered with rows
LoadOK ==
    /\ pc = "loadFetch"
    /\ SetStore(SelectOwned(db, user))
    /\ error' = NoError
    /\ pc' = "setupSession"
    /\ isLoading' = FALSE
    /\ last' = Step("LoadOK", NoRow)
    /\ UNCHANGED <<mounted, user, redirected, subscriptionRef, searchQuery,
                   showFavoritesOnly, delReqs>>
    /\ UNCHANGED <<envVars, formVars>>
    /\ UNCHANGED <<browserVars, obsVars>>

\* loadBookmarks: the select failed
LoadFail ==
    /\ pc = "loadFetch"
    /\ error' = ErrLoad
    /\ pc' = "setupSession"
    /\ isLoading' = FALSE
    /\ last' = Step("LoadFail", NoRow)
    /\ UNCHANGED <<mounted, user, bookmarks, filteredBookmarks, redirected,
                   subscriptionRef, searchQuery, showFavoritesOnly>>
    /\ UNCHANGED <<envVars, formVars, listVars>>
    /\ UNCHANGED <<editVars, browserVars, obsVars>>

\* setupRealtimeListener: its getSession() has answered; with a session the
\* channel is created, stored in subscriptionRef and subscribe() is called
SetupSession ==
    /\ pc = "setupSession"
    /\ pc' = "done"
    /\ IF session = NoSession
       THEN UNCHANGED <<subscriptionRef, channel>>
       ELSE subscriptionRef' = TRUE /\ channel' = "joining"
    /\ last' = Step("SetupSession", NoRow)
    /\ UNCHANGED <<mounted, user, bookmarks, filteredBookmarks, isLoading, error,
                   redirected, searchQuery, showFavoritesOnly>>
    /\ UNCHANGED <<session, db, nextId, now, replicaFull, unsubscribed, feed, delivered, redelivered>>
    /\ UNCHANGED <<formVars, listVars>>
    /\ UNCHANGED <<editVars, browserVars, obsVars>>

\* the server acknowledges the subscription
Subscribed ==
    /\ channel = "joining"
    /\ channel' = "joined"
    /\ last' = Step("Subscribed", NoRow)
    /\ UNCHANGED <<session, db, nextId, now, replicaFull, unsubscribed, feed, delivered, redelivered>>
    /\ UNCHANGED <<pageVars, formVars, listVars>>
    /\ UNCHANGED <<editVars, browserVars, obsVars>>

\* RealtimeChannel.unsubscribe()
UnsubscribeForgotten(ch) == ch
Unsubscribe(ch) == IF ch \in {"joining", "joined"} THEN "closed" ELSE ch

\* the effect's cleanup
Cleanup == IF subscriptionRef THEN Unsubscribe(channel) ELSE channel

\* the view is left: the component unmounts and the effect's cleanup runs
Leave ==
    /\ mounted
    /\ mounted' = FALSE
    /\ channel' = Cleanup
    /\ unsubscribed' = (unsubscribed \/ subscriptionRef)
    /\ last' = Step("Leave", NoRow)
    /\ UNCHANGED <<pc, user, bookmarks, filteredBookmarks, isLoading, error,
                   redirected, subscriptionRef, searchQuery, showFavoritesOnly>>
    /\ UNCHANGED <<session, db, nextId, now, replicaFull, feed, delivered, redelivered>>
    /\ UNCHANGED <<formVars, listVars>>
    /\ UNCHANGED <<editVars, browserVars, obsVars>>

\* handleLogout: signOut(), then router.push("/auth") leaves the view
Logout ==
    /\ UI
    /\ session' = NoSession
    /\ mounted' = FALSE
    /\ channel' = Cleanup
    /\ unsubscribed' = (unsubscribed \/ subscriptionRef)
    /\ last' = Step("Logout", NoRow)
    /\ UNCHANGED <<pc, user, bookmarks, filteredBookmarks, isLoading, error,
                   redirected, subscriptionRef, searchQuery, showFavoritesOnly>>
    /\ UNCHANGED <<db, nextId, now, replicaFull, feed, delivered, redelivered>>
    /\ UNCHANGED <<formVars, listVars>>
    /\ UNCHANGED <<editVars, browserVars, obsVars>>

\* the channel hands the next event of the feed to the handler
Deliver ==
    /\ channel = "joined"
    /\ delivered < Len(feed)
    /\ SetStore(Handle(bookmarks, feed[delivered + 1], user))
    /\ delivered' = delivered + 1
    /\ last' = Step(feed[delivered + 1].eventType, feed[delivered + 1].row)
    /\ UNCHANGED <<mounted, pc, user, isLoading, error, redirected, subscriptionRef,
                   searchQuery, showFavoritesOnly, delReqs>>
    /\ UNCHANGED <<session, db, nextId, now, replicaFull, unsubscribed, channel, feed, redelivered>>
    /\ UNCHANGED formVars
    /\ UNCHANGED <<browserVars, obsVars>>

\* at-least-once delivery: an event already delivered is delivered again
Redeliver(i) ==
    /\ channel = "joined"
    /\ i \in 1..delivered
    /\ redelivered < MaxRedeliver
    /\ SetStore(Handle(bookmarks, feed[i], user))
    /\ redelivered' = redelivered + 1
    /\ last' = Step(feed[i].eventType, feed[i].row)
    /\ UNCHANGED <<mounted, pc, user, isLoading, error, redirected, subscriptionRef,
                   searchQuery, showFavoritesOnly, delReqs>>
    /\ UNCHANGED <<session, db, nextId, now, replicaFull, unsubscribed, channel, feed, delivered>>
    /\ UNCHANGED formVars
    /\ UNCHANGED <<browserVars, obsVars>>

\* the search box
SetSearch(q) ==
    /\ UI
    /\ bookmarks # << >>
    /\ q # searchQuery
    /\ searchQuery' = q
    /\ filteredBookmarks' = Filter(bookmarks, q, showFavoritesOnly)
    /\ faded' = Rendered(Filter(bookmarks, q, showFavoritesOnly), faded)
    /\ deleting' = ListState(Filter(bookmarks, q, showFavoritesOnly), deleting)
    /\ ListUnmount(Filter(bookmarks, q, showFavoritesOnly))
    /\ last' = Step("SetSearch", NoRow)
    /\ UNCHANGED <<mounted, pc, user, bookmarks, isLoading, error, redirected,
                   subscriptionRef, showFavoritesOnly, delReqs>>
    /\ UNCHANGED <<envVars, formVars>>
    /\ UNCHANGED <<browserVars, obsVars>>

\* the favourites-only button
ToggleFavoritesOnly ==
    /\ UI
    /\ bookmarks # << >>
    /\ showFavoritesOnly' = ~showFavoritesOnly
    /\ filteredBookmarks' = Filter(bookmarks, searchQuery, ~showFavoritesOnly)
    /\ faded' = Rendered(Filter(bookmarks, searchQuery, ~showFavoritesOnly), faded)
    /\ deleting' = ListState(Filter(bookmarks, searchQuery, ~showFavoritesOnly), deleting)
    /\ ListUnmount(Filter(bookmarks, searchQuery, ~showFavoritesOnly))
    /\ last' = Step("ToggleFavoritesOnly", NoRow)
    /\ UNCHANGED <<mounted, pc, user, bookmarks, isLoading, error, redirected,
                   subscriptionRef, searchQuery, delReqs>>
    /\ UNCHANGED <<envVars, formVars>>
    /\ UNCHANGED <<browserVars, obsVars>>

\* ----------------------------------------------------------- BookmarkForm
\* handleSubmit's checks, in the order it makes them
ValidationErrorNoUrlCheck(url, title) ==
    IF Falsy(Trim(url)) THEN ErrUrlRequired
    ELSE IF Falsy(Trim(title)) THEN ErrTitleRequired
    ELSE NoMessage
ValidationError(url, title) ==
    IF Falsy(Trim(url)) THEN ErrUrlRequired
    ELSE IF ~validateUrl(url) THEN ErrUrlInvalid
    ELSE IF Falsy(Trim(title)) THEN ErrTitleRequired
    ELSE NoMessage

\* handleSubmit up to its await: the fields hold url, title, description
Submit(url, title, description) ==
    /\ UI
    /\ ~formLoading
    /\ form' = [url |-> url, title |-> title, description |-> description]
    /\ successMessage' = NoMessage
    /\ urlError' = ValidationError(url, title)
    /\ IF ValidationError(url, title) # NoMessage
       THEN UNCHANGED <<formLoading, addReq, addPc>>
       ELSE /\ formLoading' = TRUE
            /\ addReq' = [url |-> url, title |-> title, description |-> description]
            /\ addPc' = "getSession"
    /\ last' = Step("Submit", NoRow)
    /\ UNCHANGED <<envVars, pageVars, listVars>>
    /\ UNCHANGED <<editVars, browserVars, obsVars>>

\* handleSubmit after onAddBookmark resolved: the fields are cleared and the
\* success message is shown
FormResolved ==
    /\ form' = EmptyForm
    /\ successMessage' = SuccessAdded
    /\ formLoading' = FALSE
    /\ addPc' = "idle"
    /\ UNCHANGED <<urlError, addReq>>

\* handleAddBookmark: its getSession() has answered; without a session it returns
AddSession ==
    /\ addPc = "getSession"
    /\ IF session = NoSession
       THEN FormResolved
       ELSE addPc' = "insert" /\ UNCHANGED <<form, formLoading, urlError, successMessage, addReq>>
    /\ last' = Step("AddSession", NoRow)
    /\ UNCHANGED <<envVars, pageVars, listVars>>
    /\ UNCHANGED <<editVars, browserVars, obsVars>>

\* the row handleAddBookmark inserts; the table fills in the other columns
InsertedRow(req, uid) ==
    [id |-> nextId, user_id |-> uid, url |-> req.url, title |-> req.title,
     description |-> IF Falsy(req.description) THEN NULL ELSE req.description,
     is_favorite |-> FALSE, created_at |-> now, updated_at |-> now]

\* what handleAddBookmark does to the Store when its insert is accepted: nothing,
\* the row arrives with its INSERT event
StoreAfterInsertOptimistic(prev, row) == <<row>> \o prev
StoreAfterInsert(prev, row) == prev

\* handleAddBookmark: the insert was accepted
AddOK ==
    /\ addPc = "insert"
    /\ nextId <= MaxIds
    /\ now <= MaxWrites
    /\ CanEmit
    /\ UniqueOk(InsertedRow(addReq, Me))
    /\ db' = db \cup {InsertedRow(addReq, Me)}
    /\ feed' = Emit(<<[eventType |-> "INSERT", row |-> InsertedRow(addReq, Me)]>>)
    /\ nextId' = nextId + 1
    /\ now' = now + 1
    /\ FormResolved
    /\ last' = Step("AddOK", InsertedRow(addReq, Me))
    /\ SetStore(StoreAfterInsert(bookmarks, InsertedRow(addReq, Me)))
    /\ UNCHANGED <<session, replicaFull, unsubscribed, channel, delivered, redelivered>>
    /\ UNCHANGED <<mounted, pc, user, isLoading, error, redirected, subscriptionRef,
                   searchQuery, showFavoritesOnly, delReqs>>
    /\ UNCHANGED <<browserVars, obsVars>>

\* handleAddBookmark: the insert failed; the error is caught there, so the
\* promise still resolves
AddFail ==
    /\ addPc = "insert"
    /\ error' = ErrAdd
    /\ FormResolved
    /\ last' = Step("AddFail", NoRow)
    /\ UNCHANGED <<mounted, pc, user, bookmarks, filteredBookmarks, isLoading,
                   redirected, subscriptionRef, searchQuery, showFavoritesOnly>>
    /\ UNCHANGED <<envVars, listVars>>
    /\ UNCHANGED <<editVars, browserVars, obsVars>>

\* the timer that hides the success message
HideSuccess ==
    /\ successMessage # NoMessage
    /\ successMessage' = NoMessage
    /\ last' = Step("HideSuccess", NoRow)
    /\ UNCHANGED <<form, formLoading, urlError, addReq, addPc>>
    /\ UNCHANGED <<envVars, pageVars, listVars>>
    /\ UNCHANGED <<editVars, browserVars, obsVars>>

\* ----------------------------------------------------------- BookmarkList
\* handleDelete up to its await, and handleDeleteBookmark up to its request:
\* the row's element is faded out, deleting is set, the delete is sent
StartDelete(id) ==
    /\ UI
    /\ id \in Ids(filteredBookmarks)
    /\ deleting # id
    /\ editingId # id
    /\ faded' = faded \cup {id}
    /\ deleting' = id
    /\ delReqs' = IF user = NoSession THEN delReqs ELSE delReqs \cup {id}
    /\ last' = Step("StartDelete", [NoRow EXCEPT !.id = id])
    /\ UNCHANGED <<envVars, pageVars, formVars>>
    /\ UNCHANGED <<editVars, browserVars, obsVars>>

\* handleDeleteBookmark: the delete was accepted (it removes the row matching
\* id and user_id, if there is one)
DeleteOK(id) ==
    /\ id \in delReqs
    /\ delReqs' = delReqs \ {id}
    /\ IF \E r \in db : r.id = id /\ r.user_id = user
       THEN LET old == CHOOSE r \in db : r.id = id /\ r.user_id = user
            IN  /\ CanEmit
                /\ db' = db \ {old}
                /\ feed' = Emit(<<[eventType |-> "DELETE", row |-> OldRow(old)]>>)
       ELSE UNCHANGED <<db, feed>>
    /\ last' = Step("DeleteOK", [NoRow EXCEPT !.id = id])
    /\ UNCHANGED <<session, nextId, now, replicaFull, unsubscribed, channel, delivered, redelivered>>
    /\ UNCHANGED <<pageVars, formVars, deleting, faded>>
    /\ UNCHANGED <<editVars, browserVars, obsVars>>

\* handleDeleteBookmark: the delete failed; the error is caught there and the
\* banner is set, so handleDelete's own catch block does not run
DeleteFail(id) ==
    /\ id \in delReqs
    /\ delReqs' = delReqs \ {id}
    /\ error' = ErrDelete
    /\ last' = Step("DeleteFail", [NoRow EXCEPT !.id = id])
    /\ UNCHANGED <<mounted, pc, user, bookmarks, filteredBookmarks, isLoading,
                   redirected, subscriptionRef, searchQuery, showFavoritesOnly>>
    /\ UNCHANGED <<envVars, formVars, deleting, faded>>
    /\ UNCHANGED <<editVars, browserVars, obsVars>>

\* the displayed record with this id
Shown(id) == CHOOSE b \in {filteredBookmarks[i] : i \in 1..Len(filteredBookmarks)} : b.id = id

\* startEdit: the bookmark enters edit mode and its fields are copied
StartEdit(id) ==
    /\ UI
    /\ id \in Ids(filteredBookmarks)
    /\ editingId # id
    /\ editingId' = id
    /\ edit' = [title |-> Shown(id).title, url |-> Shown(id).url,
                description |-> IF Falsy(Shown(id).description) \/ Shown(id).description = NULL
                                THEN S0 ELSE Shown(id).description]
    /\ last' = Step("StartEdit", [NoRow EXCEPT !.id = id])
    /\ UNCHANGED <<updating, updReqs, browserVars, obsVars>>
    /\ UNCHANGED <<envVars, pageVars, formVars, listVars>>

\* cancelEdit
CancelEdit ==
    /\ UI
    /\ editingId \in Ids(filteredBookmarks)
    /\ editingId' = NoId
    /\ edit' = EmptyEdit
    /\ last' = Step("CancelEdit", NoRow)
    /\ UNCHANGED <<updating, updReqs, browserVars, obsVars>>
    /\ UNCHANGED <<envVars, pageVars, formVars, listVars>>

\* an update request: the filter .eq("id", id).eq("user_id", uid), the columns it
\* sets, and whether the component awaiting it is still there
UpdateRequest(kind, id, uid, title, url, description, favorite, live) ==
    [kind |-> kind, id |-> id, user_id |-> uid, title |-> title, url |-> url,
     description |-> description, is_favorite |-> favorite, updated_at |-> now,
     live |-> live]

\* handleUpdateBookmark up to its request: the columns it sends
EditRequestUntrimmed(id, updates, live) ==
    UpdateRequest("edit", id, user, updates.title, updates.url, updates.description,
                  FALSE, live)
EditRequest(id, updates, live) ==
    UpdateRequest("edit", id, user, Trim(updates.title), Trim(updates.url),
                  IF updates.description = NULL \/ Falsy(Trim(updates.description))
                  THEN NULL ELSE Trim(updates.description),
                  FALSE, live)

\* saveEdit's checks
EditRejected(title, url) ==
    \/ Falsy(Trim(title))
    \/ Falsy(Trim(url))
    \/ ~validateUrl(Trim(url))

\* the edit fields are typed and saveEdit runs up to its await; without a user
\* handleUpdateBookmark returns at once and saveEdit finishes
SaveEdit(title, url, description) ==
    /\ UI
    /\ editingId \in Ids(filteredBookmarks)
    /\ updating # editingId
    /\ now <= MaxWrites
    /\ IF EditRejected(title, url)
       THEN /\ edit' = [title |-> title, url |-> url, description |-> description]
            /\ UNCHANGED <<editingId, updating, updReqs, now>>
       ELSE IF user = NoSession
       THEN /\ edit' = EmptyEdit
            /\ editingId' = NoId
            /\ UNCHANGED <<updating, updReqs, now>>
       ELSE /\ edit' = [title |-> title, url |-> url, description |-> description]
            /\ updating' = editingId
            /\ updReqs' = updReqs \cup
                   {EditRequest(editingId,
                                [title |-> title, url |-> url,
                                 description |-> IF Falsy(description) THEN NULL
                                                 ELSE description], TRUE)}
            /\ now' = now + 1
            /\ UNCHANGED editingId
    /\ last' = Step("SaveEdit", [NoRow EXCEPT !.id = editingId])
    /\ UNCHANGED <<session, db, nextId, replicaFull, unsubscribed, channel, feed,
                   delivered, redelivered>>
    /\ UNCHANGED <<pageVars, formVars, listVars, browserVars, obsVars>>

\* handleUpdateBookmark called for any identifier, not only one the list shows
CallUpdate(id, title, url, description) ==
    /\ UI
    /\ now <= MaxWrites
    /\ IF user = NoSession
       THEN UNCHANGED <<updReqs, now>>
       ELSE /\ updReqs' = updReqs \cup
                   {EditRequest(id, [title |-> title, url |-> url,
                                     description |-> description], FALSE)}
            /\ now' = now + 1
    /\ last' = Step("CallUpdate", [NoRow EXCEPT !.id = id])
    /\ UNCHANGED <<session, db, nextId, replicaFull, unsubscribed, channel, feed,
                   delivered, redelivered>>
    /\ UNCHANGED <<updating, editingId, edit>>
    /\ UNCHANGED <<pageVars, formVars, listVars, browserVars, obsVars>>

\* what the table does with an update request: the rows matching id and user_id
\* get the columns; no matching row is no error
UpdatedKeepsTimestamp(old, r) ==
    IF r.kind = "edit"
    THEN [old EXCEPT !.title = r.title, !.url = r.url, !.description = r.description]
    ELSE [old EXCEPT !.is_favorite = r.is_favorite]
Updated(old, r) ==
    IF r.kind = "edit"
    THEN [old EXCEPT !.title = r.title, !.url = r.url, !.description = r.description,
                     !.updated_at = r.updated_at]
    ELSE [old EXCEPT !.is_favorite = r.is_favorite, !.updated_at = r.updated_at]

Target(r) == {old \in db : old.id = r.id /\ old.user_id = r.user_id}

ApplyRequest(r) ==
    /\ \A old \in Target(r) :
           ~\E other \in db \ {old} :
               other.user_id = old.user_id /\ other.url = Updated(old, r).url
    /\ Target(r) # {} => CanEmit
    /\ db' = (db \ Target(r)) \cup {Updated(old, r) : old \in Target(r)}
    /\ feed' = IF Target(r) = {} THEN feed
               ELSE Emit(<<[eventType |-> "UPDATE",
                            row |-> Updated(CHOOSE old \in Target(r) : TRUE, r)]>>)

\* saveEdit after its await: cancelEdit(), then the finally block
EditResolved(r) ==
    IF r.live
    THEN editingId' = NoId /\ edit' = EmptyEdit /\ updating' = NoId
    ELSE UNCHANGED <<editingId, edit, updating>>

\* the catch block of a gateway operation
setErrorOmitted(message) == error' = error
setError(message) == error' = message

\* handleUpdateBookmark: the update was accepted
UpdateOK(r) ==
    /\ r \in updReqs
    /\ r.kind = "edit"
    /\ updReqs' = updReqs \ {r}
    /\ ApplyRequest(r)
    /\ EditResolved(r)
    /\ last' = Step("UpdateOK", [NoRow EXCEPT !.id = r.id, !.user_id = r.user_id])
    /\ UNCHANGED <<session, nextId, now, replicaFull, unsubscribed, channel,
                   delivered, redelivered>>
    /\ UNCHANGED <<pageVars, formVars, listVars, browserVars, obsVars>>

\* handleUpdateBookmark: the update failed; the error is caught there
UpdateFail(r) ==
    /\ r \in updReqs
    /\ r.kind = "edit"
    /\ updReqs' = updReqs \ {r}
    /\ setError(ErrUpdate)
    /\ EditResolved(r)
    /\ last' = Step("UpdateFail", [NoRow EXCEPT !.id = r.id, !.user_id = r.user_id])
    /\ UNCHANGED <<mounted, pc, user, bookmarks, filteredBookmarks, isLoading,
                   redirected, subscriptionRef, searchQuery, showFavoritesOnly>>
    /\ UNCHANGED <<envVars, formVars, listVars, browserVars, obsVars>>

\* handleFavorite up to its await, and handleToggleFavorite up to its request
HandleFavorite(id) ==
    /\ UI
    /\ id \in Ids(filteredBookmarks)
    /\ editingId # id
    /\ updating # id
    /\ now <= MaxWrites
    /\ IF user = NoSession
       THEN UNCHANGED <<updating, updReqs, now>>
       ELSE /\ updating' = id
            /\ updReqs' = updReqs \cup
                   {UpdateRequest("fav", id, user, S0, S0, NULL,
                                  ~Shown(id).is_favorite, TRUE)}
            /\ now' = now + 1
    /\ last' = Step("HandleFavorite", Shown(id))
    /\ UNCHANGED <<session, db, nextId, replicaFull, unsubscribed, channel, feed,
                   delivered, redelivered>>
    /\ UNCHANGED <<editingId, edit>>
    /\ UNCHANGED <<pageVars, formVars, listVars, browserVars, fetches>>
    /\ favLog' = IF user = NoSession THEN favLog ELSE Append(favLog, <<"sent", id>>)

\* handleFavorite's finally block
FavoriteResolved(r) == updating' = IF r.live THEN NoId ELSE updating

\* handleToggleFavorite: the update was accepted
ToggleOK(r) ==
    /\ r \in updReqs
    /\ r.kind = "fav"
    /\ updReqs' = updReqs \ {r}
    /\ ApplyRequest(r)
    /\ FavoriteResolved(r)
    /\ last' = Step("ToggleOK", [NoRow EXCEPT !.id = r.id, !.user_id = r.user_id])
    /\ UNCHANGED <<session, nextId, now, replicaFull, unsubscribed, channel,
                   delivered, redelivered>>
    /\ UNCHANGED <<editingId, edit>>
    /\ UNCHANGED <<pageVars, formVars, listVars, browserVars, fetches>>
    /\ favLog' = Append(favLog, <<"accepted", r.id>>)

\* handleToggleFavorite: the update failed; the error is caught there
ToggleFail(r) ==
    /\ r \in updReqs
    /\ r.kind = "fav"
    /\ updReqs' = updReqs \ {r}
    /\ setError(ErrFavorite)
    /\ FavoriteResolved(r)
    /\ last' = Step("ToggleFail", [NoRow EXCEPT !.id = r.id, !.user_id = r.user_id])
    /\ UNCHANGED <<mounted, pc, user, bookmarks, filteredBookmarks, isLoading,
                   redirected, subscriptionRef, searchQuery, showFavoritesOnly>>
    /\ UNCHANGED <<editingId, edit>>
    /\ UNCHANGED <<envVars, formVars, listVars, browserVars, fetches>>
    /\ favLog' = Append(favLog, <<"failed", r.id>>)

\* ------------------------------------------------------------------- Next
AllIds == 1..MaxIds

\* the steps of the view's own start-up and of its channel
Startup ==
    \/ AuthCheck
    \/ LoadSession
    \/ LoadOK
    \/ LoadFail
    \/ SetupSession
    \/ Subscribed

\* the Store under the change feed: other sessions write, events are delivered
Next ==
    \/ Startup
    \/ \E owner \in Users : EnvInsert(owner)
    \/ \E id \in AllIds : EnvUpdate(id)
    \/ \E id \in AllIds : EnvDelete(id)
    \/ SessionEnds
    \/ Deliver
    \/ \E i \in 1..MaxFeed : Redeliver(i)

Spec == Init /\ [][Next]_vars

\* the add form and the echo of its insert
NextCreate ==
    \/ Startup
    \/ \E url \in UrlInputs, title \in TitleInputs, description \in DescInputs :
            Submit(url, title, description)
    \/ AddSession
    \/ AddOK
    \/ AddFail
    \/ HideSuccess
    \/ Deliver
    \/ \E i \in 1..MaxFeed : Redeliver(i)

SpecCreate == Init /\ [][NextCreate]_vars

\* deleting from the list
NextDelete ==
    \/ Startup
    \/ EnvInsert(Me)
    \/ \E id \in AllIds : StartDelete(id)
    \/ \E id \in AllIds : DeleteOK(id)
    \/ \E id \in AllIds : DeleteFail(id)
    \/ \E q \in SearchInputs : SetSearch(q)
    \/ ToggleFavoritesOnly
    \/ Deliver

SpecDelete == Init /\ [][NextDelete]_vars

\* handleUpdateBookmark against rows of any owner
NextGateway ==
    \/ Startup
    \/ \E owner \in Users : EnvInsert(owner)
    \/ \E id \in AllIds, url \in {SUrl, SUrlPad}, description \in {NULL, SBlank} :
            CallUpdate(id, <<"A">>, url, description)
    \/ \E r \in updReqs : UpdateOK(r)
    \/ \E r \in updReqs : UpdateFail(r)
    \/ Deliver

SpecGateway == Init /\ [][NextGateway]_vars

\* starring and unstarring from the list, with another session doing the same
NextFavorite ==
    \/ Startup
    \/ EnvInsert(Me)
    \/ \E id \in AllIds : EnvUpdate(id)
    \/ \E id \in AllIds : HandleFavorite(id)
    \/ \E r \in updReqs : ToggleOK(r)
    \/ \E r \in updReqs : ToggleFail(r)
    \/ Deliver

SpecFavorite == Init /\ [][NextFavorite]_vars

\* the four mutations of the gateway, from the form and from the list, with every
\* request to the table failing
NextFailures ==
    \/ Startup
    \/ EnvInsert(Me)
    \/ Submit(SUrlPad, SA, S0)
    \/ AddSession
    \/ AddFail
    \/ \E id \in AllIds : StartEdit(id)
    \/ \E url \in {SNotUrl, SUrlPad} : SaveEdit(<<"A">>, url, S0)
    \/ \E r \in updReqs : UpdateFail(r)
    \/ \E id \in AllIds : HandleFavorite(id)
    \/ \E r \in updReqs : ToggleFail(r)
    \/ \E id \in AllIds : StartDelete(id)
    \/ \E id \in AllIds : DeleteFail(id)

SpecFailures == Init /\ [][NextFailures]_vars

\* the same, never halting while a step is possible: a pending promise is settled
\* and a handler that can run does run
FairFailures == SpecFailures /\ WF_vars(NextFailures)

\* signing in: the auth callback, then the view it redirects to
NextCallback ==
    \/ \E outcome \in ExchangeOutcomes : AuthCallback(outcome)
    \/ HomeCheck
    \/ Startup
    \/ \E owner \in Users : EnvInsert(owner)
    \/ Deliver

SpecCallback == InitCallback /\ [][NextCallback]_vars

\* the same four operations while the session can end under the open view
NextWrites ==
    \/ NextFailures
    \/ SessionEnds

SpecWrites == Init /\ [][NextWrites]_vars

\* editing from the list
NextEdit ==
    \/ Startup
    \/ EnvInsert(Me)
    \/ \E id \in AllIds : StartEdit(id)
    \/ CancelEdit
    \/ \E title \in EditTitleInputs, url \in EditUrlInputs, description \in EditDescInputs :
            SaveEdit(title, url, description)
    \/ \E r \in updReqs : UpdateOK(r)
    \/ \E r \in updReqs : UpdateFail(r)
    \/ Deliver

SpecEdit == Init /\ [][NextEdit]_vars

\* starring and unstarring from the list, this view being the only writer
NextOwnFavorite ==
    \/ Startup
    \/ EnvInsert(Me)
    \/ \E id \in AllIds : HandleFavorite(id)
    \/ \E r \in updReqs : ToggleOK(r)
    \/ \E r \in updReqs : ToggleFail(r)
    \/ Deliver

SpecOwnFavorite == Init /\ [][NextOwnFavorite]_vars

\* searching and filtering the Store
NextFilter ==
    \/ Startup
    \/ EnvInsert(Me)
    \/ \E id \in AllIds : EnvUpdate(id)
    \/ \E q \in FilterInputs : SetSearch(q)
    \/ ToggleFavoritesOnly
    \/ Deliver

SpecFilter == Init /\ [][NextFilter]_vars

\* entering and leaving the view
NextLifecycle ==
    \/ Startup
    \/ \E owner \in Users : EnvInsert(owner)
    \/ SessionEnds
    \/ Leave
    \/ Logout
    \/ Deliver
    \/ \E i \in 1..MaxFeed : Redeliver(i)

SpecLifecycle == Init /\ [][NextLifecycle]_vars

\* =================================================================== claims
\* C1: every record in the Store is owned by the signed-in user, after Load and
\* after any delivery of insert, update and delete events, other users' rows included.
StoreOwnedByUser ==
    \A i \in 1..Len(bookmarks) : bookmarks[i].user_id = user /\ user = Me

\* C1 witness: another user's insert event has been handled while the Store
\* holds records
OtherUsersInsertHandled ==
    /\ last.op = "INSERT"
    /\ last.row.user_id = Other
    /\ bookmarks # << >>

\* C2: handling an insert event puts the record in front of the previous Store,
\* whose order is kept, when the record's owner is the current user, and leaves
\* the Store as it was otherwise.
InsertPrepends ==
    [][last'.op = "INSERT" =>
            IF last'.row.user_id = user
            THEN /\ Len(bookmarks') = Len(bookmarks) + 1
                 /\ Head(bookmarks') = last'.row
                 /\ Tail(bookmarks') = bookmarks
            ELSE bookmarks' = bookmarks]_vars

\* C2 witness: the current user's insert event was put in front of a non-empty Store
InsertedInFront ==
    /\ last.op = "INSERT"
    /\ last.row.user_id = Me
    /\ Len(bookmarks) >= 2
    /\ bookmarks[1] = last.row
    /\ bookmarks[2].id # last.row.id

\* C3: handling an update event replaces every entry with the record's id by the
\* record and keeps the other entries, the length and the order, when the owner
\* matches; the Store is unchanged when the id is absent or the owner differs.
UpdateReplacesInPlace ==
    [][last'.op = "UPDATE" =>
            /\ Len(bookmarks') = Len(bookmarks)
            /\ \A i \in 1..Len(bookmarks) :
                    bookmarks'[i] = IF bookmarks[i].id = last'.row.id
                                       /\ last'.row.user_id = user
                                    THEN last'.row
                                    ELSE bookmarks[i]
            /\ (last'.row.id \notin Ids(bookmarks) \/ last'.row.user_id # user)
                    => bookmarks' = bookmarks]_vars

\* C3 witness: an update event of the current user replaced the second of two entries
UpdatedInPlace ==
    /\ last.op = "UPDATE"
    /\ last.row.user_id = Me
    /\ Len(bookmarks) = 2
    /\ bookmarks[2] = last.row
    /\ bookmarks[1].id # last.row.id

\* C4: handling a delete event removes the entry with the old row's id and keeps
\* the other entries in their order, when the old row's owner is the current
\* user; the Store is unchanged when the owner differs.
DeleteRemovesEntry ==
    [][last'.op = "DELETE" =>
            IF last'.row.user_id = user
            THEN /\ last'.row.id \notin Ids(bookmarks')
                 /\ bookmarks' = SelectSeq(bookmarks, LAMBDA b : b.id # last'.row.id)
            ELSE bookmarks' = bookmarks]_vars

\* C4 witness: record 2 was inserted by event, then removed by its delete event,
\* and the entry loaded before it is still there
DeletedFromStore ==
    /\ last.op = "DELETE"
    /\ last.row.user_id = Me
    /\ delivered = 2
    /\ redelivered = 0
    /\ feed[1].eventType = "INSERT"
    /\ feed[1].row.user_id = Me
    /\ feed[1].row.id = last.row.id
    /\ feed[2].eventType = "DELETE"
    /\ Len(bookmarks) = 1
    /\ last.row.id \notin Ids(bookmarks)

\* C5: Delete(id) removes the record from the displayed list in the step that
\* starts the delete, before the backing delete call completes.
DeleteRemovesAtOnce ==
    last.op = "StartDelete" => last.row.id \notin Ids(filteredBookmarks)

\* C6: when the backing delete call fails, the item is again present and
\* visible in the displayed list.
FailedDeleteRestores ==
    last.op = "DeleteFail" =>
        /\ last.row.id \in Ids(filteredBookmarks)
        /\ last.row.id \notin faded

\* the entries of the Store with the created record's URL and title
CreatedEntries(row) ==
    {i \in 1..Len(bookmarks) :
        /\ bookmarks[i].url = row.url
        /\ bookmarks[i].title = row.title}

\* C7: once the insert event of a successful Create has been reconciled, under
\* every delivery schedule of the feed, the Store holds exactly one record with
\* that URL and title, and it is the first element.
CreatedOnceAtHead ==
    (last.op = "INSERT" /\ last.row.user_id = user) =>
        /\ Cardinality(CreatedEntries(last.row)) = 1
        /\ bookmarks[1] = last.row

\* what Create must reject: an empty or blank url, an empty or blank title, a
\* url that is no URL
Rejected(f) ==
    \/ Trim(f.url) = S0
    \/ Trim(f.title) = S0
    \/ ~ParsesAsUrl(f.url)

\* C8: Create with an empty or blank url, an empty or blank title, or a url
\* that is not a valid URL ends in a validation error: no request is started,
\* and the table, the feed and the Store are unchanged.
InvalidCreateRejected ==
    [][(last'.op = "Submit" /\ Rejected(form')) =>
            /\ urlError' # NoMessage
            /\ addPc' = "idle"
            /\ ~formLoading'
            /\ db' = db
            /\ feed' = feed
            /\ bookmarks' = bookmarks
            /\ filteredBookmarks' = filteredBookmarks]_vars

\* C8 witness: a submit with a url that is no URL and a good title was rejected
InvalidUrlRejected ==
    /\ last.op = "Submit"
    /\ form.url = SNotUrl
    /\ form.title = SA
    /\ urlError = ErrUrlInvalid
    /\ addPc = "idle"

\* C9: once unsubscribe() has been called on the view's channel, no event is
\* handed to the handler and the Store does not change.
NoHandlerAfterUnsubscribe ==
    [][unsubscribed => (bookmarks' = bookmarks /\ delivered' = delivered
                        /\ redelivered' = redelivered)]_vars

\* C9 witness: the channel was unsubscribed with an event of the user's row
\* still undelivered, and a row of the user was written afterwards
UnsubscribedWithEventPending ==
    /\ unsubscribed
    /\ delivered < Len(feed)
    /\ feed[delivered + 1].row.user_id = Me
    /\ last.op = "EnvInsert"
    /\ last.row.user_id = Me

\* C10: once the view has been left and its start-up has run to its end, no
\* subscription opened by the view is live.
NoSubscriptionAfterLeave ==
    (~mounted /\ pc = "done") => channel \notin {"joining", "joined"}

\* C11: entering the view without a session redirects to sign-in, issues no
\* bookmark fetch and opens no subscription; with a session the one bulk load
\* has been issued and has answered before the subscription is opened.
SessionGate ==
    /\ pc # "getSession" => (redirected <=> user = NoSession)
    /\ redirected => (fetches = 0 /\ ~subscriptionRef /\ channel = "none")
    /\ (subscriptionRef \/ channel # "none") =>
           (~redirected /\ fetches = 1 /\ pc = "done")

SubscribedAfterLoad ==
    /\ channel = "joined"
    /\ subscriptionRef
    /\ fetches = 1
    /\ bookmarks # << >>
    /\ mounted

\* C12: a load that succeeds replaces the Store by exactly the rows the user
\* owns, newest created_at first; a load that fails sets the error banner, leaves
\* the Store as it was and is not followed by a second fetch.
LoadReplacesStore ==
    /\ [](fetches <= 1)
    /\ [][/\ (last'.op = "LoadOK") =>
                (/\ {bookmarks'[i] : i \in 1..Len(bookmarks')} = {r \in db : r.user_id = user}
                 /\ Len(bookmarks') = Cardinality({r \in db : r.user_id = user})
                 /\ \A i, j \in 1..Len(bookmarks') :
                        i < j => bookmarks'[i].created_at >= bookmarks'[j].created_at)
          /\ (last'.op = "LoadFail") =>
                (/\ error' = ErrLoad
                 /\ bookmarks' = bookmarks
                 /\ fetches' = fetches
                 /\ pc' # "loadFetch")]_vars

LoadedTwoRows ==
    /\ last.op = "LoadOK"
    /\ Len(bookmarks) = 2
    /\ bookmarks[1].created_at > bookmarks[2].created_at

\* containment of a query in a text, whatever the case of either
Fold(c) == IF c = "A" THEN "a" ELSE c

HoldsQuery(text, q) ==
    \E k \in 0..Len(text) :
        /\ k + Len(q) <= Len(text)
        /\ \A i \in 1..Len(q) : Fold(text[k + i]) = Fold(q[i])

Wanted(b) ==
    /\ \/ HoldsQuery(b.title, searchQuery)
       \/ HoldsQuery(b.url, searchQuery)
       \/ b.description # NULL /\ HoldsQuery(b.description, searchQuery)
    /\ showFavoritesOnly => b.is_favorite

WantedAt == {i \in 1..Len(bookmarks) : Wanted(bookmarks[i])}

\* C13: the displayed list is determined by the Store, the query and the
\* favourites-only flag: it is the subsequence of the Store, in Store order, of the
\* records holding the query, whatever the case of either, inside their title, URL or
\* description and, with the flag set, marked favourite; computing it leaves the
\* Store alone.
DisplayedIsFilterOfStore ==
    /\ [](/\ Len(filteredBookmarks) = Cardinality(WantedAt)
          /\ \A i \in WantedAt :
                filteredBookmarks[Cardinality({j \in WantedAt : j <= i})] = bookmarks[i])
    /\ [][last'.op \in {"SetSearch", "ToggleFavoritesOnly"} => bookmarks' = bookmarks]_vars

FilteredToSome ==
    /\ last.op \in {"SetSearch", "ToggleFavoritesOnly"}
    /\ searchQuery # S0
    /\ showFavoritesOnly
    /\ Len(bookmarks) = 2
    /\ Len(filteredBookmarks) = 1

\* C14: an update of a record that does not belong to the current user fails: the
\* row is left unchanged in the table and the failed-update banner is shown.
UpdateOfForeignRowFails ==
    [][(/\ last'.op \in {"UpdateOK", "UpdateFail"}
        /\ \E row \in db : row.id = last'.row.id /\ row.user_id # user)
       => (db' = db /\ error' = ErrUpdate)]_vars

UpdatedAtNeverDecreases ==
    [][\A row \in db : \A new \in db' :
          new.id = row.id =>
             /\ new.updated_at >= row.updated_at
             /\ (last'.op \in {"UpdateOK", "ToggleOK", "EnvUpdate"} /\ last'.row.id = row.id)
                    => new.updated_at > row.updated_at]_vars

\* C17: when a create, update, favourite-toggle or delete request fails, the error
\* banner shows that operation's failure message, and neither the operation's start
\* nor its failure has changed the Store.
FailureSetsBannerKeepsStore ==
    [][/\ (last'.op = "AddFail") => error' = ErrAdd
       /\ (last'.op = "UpdateFail") => error' = ErrUpdate
       /\ (last'.op = "ToggleFail") => error' = ErrFavorite
       /\ (last'.op = "DeleteFail") => error' = ErrDelete
       /\ (last'.op \in {"Submit", "AddSession", "AddFail", "SaveEdit", "UpdateFail",
                         "HandleFavorite", "ToggleFail", "StartDelete", "DeleteFail"})
             => (bookmarks' = bookmarks /\ filteredBookmarks' = filteredBookmarks)]_vars

FavoriteFailedWithRowsShown ==
    /\ last.op = "ToggleFail"
    /\ error = ErrFavorite
    /\ bookmarks # << >>
    /\ updReqs = {}

\* C18: after a failed load, create, edit, favourite toggle or delete, the loading
\* flag and the busy flag raised for that operation are eventually cleared, so the
\* form or the bookmark's controls are enabled again.
BusyEventuallyCleared ==
    /\ (last.op = "LoadFail") ~> ~isLoading
    /\ (last.op = "AddFail") ~> ~formLoading
    /\ \A id \in AllIds :
          /\ (last.op \in {"UpdateFail", "ToggleFail"} /\ last.row.id = id /\ updating = id)
                ~> (updating # id)
          /\ (last.op = "DeleteFail" /\ last.row.id = id /\ deleting = id)
                ~> (deleting # id)

\* C19: the auth callback redirects to sign-in with reason no_code when the request
\* has no code; with a code it leaves for the application only if the exchange
\* gave a session, and redirects to sign-in with reason auth_failed whenever the
\* exchange failed, by a returned error or by an exception.
CallbackRedirects ==
    [][(last'.op = "AuthCallback") =>
          /\ request.code = NULL => route' = "/auth?error=no_code"
          /\ route' \in {"/bookmarks", "/"} => exchange' = "session"
          /\ exchange' \in {"error", "throws"} => route' = "/auth?error=auth_failed"]_vars

\* C20: every write request sent to the table is constrained to the signed-in
\* user: an insert carries that user's id, every update, favourite toggle and delete
\* matches on id and on that user's id; without a signed-in user no write request
\* is sent.
WritesOnlyForSignedInUser ==
    /\ [](\A r \in updReqs : r.user_id = Me /\ r.id \in AllIds)
    /\ [](delReqs # {} => user = Me)
    /\ [][(addPc' = "insert" /\ addPc # "insert") => session = Me]_vars
    /\ [][session = NoSession =>
             /\ updReqs' \subseteq updReqs
             /\ delReqs' \subseteq delReqs
             /\ addPc' = "insert" => addPc = "insert"]_vars

\* C21: Create never changes the Store by itself: no step of the form or of
\* handleAddBookmark, whether the insert is accepted or fails, changes the Store
\* or the displayed list; only the delivery of the insert event does.
CreateLeavesStore ==
    [][(last'.op \in {"Submit", "AddSession", "AddOK", "AddFail", "HideSuccess"})
          => (bookmarks' = bookmarks /\ filteredBookmarks' = filteredBookmarks)]_vars

InsertAcceptedEventPending ==
    /\ last.op = "AddOK"
    /\ channel = "joined"
    /\ delivered < Len(feed)
    /\ last.row \in db
    /\ last.row.id \notin Ids(bookmarks)

Pad(n) == [i \in 1..n |-> " "]

IsTrimOf(t, s) ==
    /\ t = << >> \/ (t[1] # " " /\ t[Len(t)] # " ")
    /\ \E a, b \in 0..Len(s) : s = Pad(a) \o t \o Pad(b)

\* C23: an update sends the title trimmed, the url trimmed, the description
\* trimmed, or null when that is empty, and a refreshed updated_at; the row keeps
\* its id, user_id, is_favorite and created_at; nothing is sent when the trimmed
\* title or url is empty or the trimmed url is not a valid URL.
UpdateSendsTrimmedFields ==
    [][/\ (last'.op = "SaveEdit") =>
            (/\ \A r \in updReqs' \ updReqs :
                   /\ r.kind = "edit" /\ r.id = editingId
                   /\ IsTrimOf(r.title, edit'.title)
                   /\ IsTrimOf(r.url, edit'.url)
                   /\ IF IsTrimOf(S0, edit'.description)
                      THEN r.description = NULL
                      ELSE r.description # NULL /\ IsTrimOf(r.description, edit'.description)
                   /\ \A row \in db : r.updated_at > row.updated_at
             /\ (\/ IsTrimOf(S0, edit'.title)
                 \/ IsTrimOf(S0, edit'.url)
                 \/ ~validateUrl(Trim(edit'.url))) => updReqs' = updReqs)
       /\ (last'.op = "UpdateOK") =>
            (\A r \in updReqs \ updReqs' : \A old \in Target(r) :
                [old EXCEPT !.title = r.title, !.url = r.url,
                            !.description = r.description,
                            !.updated_at = r.updated_at] \in db')]_vars

PaddedEditSent ==
    /\ last.op = "SaveEdit"
    /\ edit.title = <<" ", "A", " ">>
    /\ edit.url = SUrlPad
    /\ edit.description = SBlank
    /\ \E r \in updReqs : r.id = editingId /\ r.title = <<"A">> /\ r.description = NULL

\* C24: in every reachable state the Store holds at most one entry per bookmark
\* identifier, also when an insert event is delivered more than once.
OneEntryPerId ==
    \A i, j \in 1..Len(bookmarks) : bookmarks[i].id = bookmarks[j].id => i = j

\* C25: once the view has loaded and subscribed and every emitted event has been
\* delivered, the records of the Store are exactly the current user's rows of the
\* table, also when another session wrote between the bulk fetch and the moment
\* the subscription became live.
StoreConverges ==
    (/\ pc = "done"
     /\ channel = "joined"
     /\ delivered = Len(feed)
     /\ updReqs = {} /\ delReqs = {} /\ addPc = "idle")
    => {bookmarks[i] : i \in 1..Len(bookmarks)} = {r \in db : r.user_id = user}

\* C26: once the delete event of an accepted Delete(id) has been delivered, neither
\* the Store nor the displayed list holds id, also when the event's old row carries
\* the identifier only.
DeleteEchoRemoves ==
    (last.op = "DELETE") =>
        (last.row.id \notin Ids(bookmarks) /\ last.row.id \notin Ids(filteredBookmarks))

\* the identifiers whose delete event has been applied to the Store
Removed ==
    {feed[k].row.id : k \in {n \in 1..delivered :
                                /\ feed[n].eventType = "DELETE"
                                /\ feed[n].row.user_id = user}}

\* C27: once a delete event for an identifier has been applied to the Store, no
\* later delivery, a redelivered or delayed insert or update event for it included,
\* makes a record with that identifier appear in the Store again.
RemovedStaysRemoved ==
    \A id \in Removed : id \notin Ids(bookmarks)

\* the favourite requests of this view for one bookmark, in order
LogOf(id) == SelectSeq(favLog, LAMBDA e : e[2] = id)

\* C28: two favourite toggles of the same bookmark, the second started after the
\* first was accepted, leave is_favorite in the table at its original value (rows
\* are created unstarred), whenever the first toggle's update event is delivered.
TwoTogglesRestore ==
    \A id \in AllIds :
        LogOf(id) = << <<"sent", id>>, <<"accepted", id>>, <<"sent", id>>, <<"accepted", id>> >>
            => \A row \in db : row.id = id => ~row.is_favorite

\* C29: while an edit or favourite request for a bookmark is awaited its save and
\* favourite controls are disabled, and while a delete request for it is awaited
\* its delete control is disabled, whatever starts or finishes for another
\* bookmark meanwhile; so at most one request of each kind per bookmark is awaited.
ControlsDisabledWhileAwaited ==
    /\ \A r \in updReqs : r.live => updating = r.id
    /\ \A id \in delReqs : deleting = id \/ editingId = id
    /\ \A r1, r2 \in updReqs : (r1.id = r2.id /\ r1.kind = r2.kind) => r1 = r2

\* C30: the add form shows its success message and clears its fields only when the
\* insert was accepted; when the insert fails or there is no session, no success
\* message is shown and the entered fields are kept.
SuccessOnlyWhenInserted ==
    [][/\ (successMessage' = SuccessAdded /\ successMessage # SuccessAdded)
             => last'.op = "AddOK"
       /\ (last'.op = "AddFail" \/ (last'.op = "AddSession" /\ session = NoSession))
             => (successMessage' = NoMessage /\ form' = form)]_vars

====
